---------------------------- MODULE Spec2Model ----------------------------
(***************************************************************************)
(* Model of full_functionality/tendies-extension-tutorial.ipynb: the       *)
(* LayerInjector pre- and postprocessing functions, the ServerBuilder      *)
(* inference closure and the object detection client's visualize().        *)
(*                                                                         *)
(* Three specifications share the module's variables:                      *)
(*   SpecPre    - bitstring_to_uint8_tensor (server side preprocessing)    *)
(*   Spec       - object_detection_inference followed by                   *)
(*                object_detection_dict_to_tensor_dict                     *)
(*   SpecClient - repeated visualize() calls on one client instance        *)
(*                                                                         *)
(* Python objects are modelled with a heap: a tf.Tensor is an immutable    *)
(* object, a dict binds names to object references.                        *)
(***************************************************************************)
EXTENDS Integers, Sequences, FiniteSets, TLC

VARIABLES
    \* --- bitstring_to_uint8_tensor(self, input_bytes, channels, *args)
    pre_pc,            \* "start" | "done" | "error"
    input_bytes,       \* the string tensor holding the encoded PNG
    channels,          \* the requested channel count
    input_tensor,      \* the returned tensor (shape, dtype), or NoTensor
    \* --- object_detection_inference / object_detection_dict_to_tensor_dict
    pc,                \* "start" | "inferred" | "done"
    input_tensors,     \* argument of object_detection_inference
    calls,             \* call log of tf.to_float and of detection_model
    model_output,      \* by-value snapshot of what detection_model.postprocess gave
    heap,              \* Python objects: reference -> tensor value
    object_detection_tensor_dict,  \* the dict: sequence of [name, ref]
    extra_args,        \* *args of the postprocessing function
    graph,             \* nodes made by tf.identity(tensor, name)
    post_return,       \* <<>> until the postprocessing function returns,
                       \* then <<output_node_names, OUTPUT_AS_IMAGE>>
    \* --- the client
    client,            \* the fields of the client instance
    label_file,        \* contents of the file at client.label_path
    files,             \* the file system below output_dir: path -> image
    loads,             \* number of times the label map has been loaded
    default_graph,     \* ops the client has added to TensorFlow's default graph
    log                \* one record per visualize() call

pre_vars    == <<pre_pc, input_bytes, channels, input_tensor>>
server_vars == <<pc, input_tensors, calls, model_output, heap,
                 object_detection_tensor_dict, extra_args, graph,
                 post_return>>
client_vars == <<client, label_file, files, loads, default_graph, log>>
vars        == <<pre_vars, server_vars, client_vars>>

NoTensor == [shape |-> <<>>, dtype |-> "none"]

-----------------------------------------------------------------------------
(* Bounds of the model                                                     *)

MaxDim  == 3   \* image height and width range over 1..MaxDim
MaxKeys == 3   \* number of entries of the output structure
MaxDet  == 1   \* number of detections (length of every output tensor)
MaxVal  == 1   \* tensor elements range over 0..MaxVal

-----------------------------------------------------------------------------
(* bitstring_to_uint8_tensor (LayerInjector)                               *)

\* PNG files hold 1 (grey), 2 (grey+alpha), 3 (RGB) or 4 (RGBA) channels.
PngChannels == {1, 2, 3, 4}

\* tf.image.decode_png accepts channels in {0, 1, 3, 4}; 0 means "as the file".
DecodeChannels == {0, 1, 3, 4}

\* The encoded inputs: a string tensor of some shape whose single element
\* (when it has one) is either a PNG of size h x w with c channels or junk.
Bitstrings ==
    [shape : {<<>>, <<1>>, <<2>>}, valid : BOOLEAN,
     h : 1..MaxDim, w : 1..MaxDim, c : PngChannels]

RECURSIVE NumElements(_)
NumElements(shape) ==
    IF shape = <<>> THEN 1 ELSE Head(shape) * NumElements(Tail(shape))

\* tf.reshape(input_bytes, []): a scalar; fails unless there is one element.
ReshapeScalarOk(bytes) == NumElements(bytes.shape) = 1

\* tf.image.decode_png(input_bytes, channels=channels)
DecodePngOk(bytes, ch) == bytes.valid /\ ch \in DecodeChannels

DecodePng(bytes, ch) ==
    [shape |-> <<bytes.h, bytes.w, IF ch = 0 THEN bytes.c ELSE ch>>,
     dtype |-> "uint8"]

\* tf.expand_dims(input_tensor, -1): the new axis last instead of first.
ExpandDimsLast(t) == [t EXCEPT !.shape = t.shape \o <<1>>]

\* tf.expand_dims(input_tensor, 0)
ExpandDims0(t) == [t EXCEPT !.shape = <<1>> \o t.shape]

PreInit ==
    /\ pre_pc = "start"
    /\ input_bytes \in Bitstrings
    /\ channels \in 0..4
    /\ input_tensor = NoTensor

BitstringToUint8Tensor ==
    /\ pre_pc = "start"
    /\ IF ReshapeScalarOk(input_bytes) /\ DecodePngOk(input_bytes, channels)
       THEN /\ input_tensor' = ExpandDims0(DecodePng(input_bytes, channels))
            /\ pre_pc' = "done"
       ELSE /\ input_tensor' = NoTensor
            /\ pre_pc' = "error"
    /\ UNCHANGED <<input_bytes, channels>>


-----------------------------------------------------------------------------
(* object_detection_inference (the closure defined in ServerBuilder)       *)

\* Names of the tensors an Object Detection API model returns.
TensorNames == {"detection_boxes", "detection_scores", "detection_classes"}

TensorValues == UNION {[1..n -> 0..MaxVal] : n \in 0..MaxDet}

RECURSIVE DistinctSeqs(_, _)
DistinctSeqs(S, n) ==
    IF n = 0 THEN {<<>>}
    ELSE LET shorter == DistinctSeqs(S, n - 1)
         IN  shorter \cup
             {Append(q, x) : q \in {r \in shorter : Len(r) = n - 1}, x \in S}

Range(q) == {q[k] : k \in 1..Len(q)}

\* The output structures detection_model.postprocess can return: a dict,
\* that is an ordered list of entries with pairwise different names.
OutputStructures ==
    LET keyLists == {q \in DistinctSeqs(TensorNames, MaxKeys) :
                        Cardinality(Range(q)) = Len(q)}
    IN  UNION {
          {[k \in 1..Len(q) |-> [name |-> q[k], value |-> v[k]]] :
              v \in [1..Len(q) -> TensorValues]} : q \in keyLists}

\* The uint8 batches the adapter is called with.
InputTensors ==
    {[shape |-> <<1, h, h, 3>>, dtype |-> "uint8"] : h \in 1..2}

\* tf.to_float(input_tensors)
ToFloat(t) == [t EXCEPT !.dtype = "float32"]

\* detection_model.preprocess / predict / postprocess belong to the Object
\* Detection API; their results are kept symbolic, except the final output
\* structure `out`, which the environment chooses.
ModelPreprocess(inputs) ==
    <<[kind |-> "preprocessed_inputs", of |-> inputs],
      [kind |-> "true_image_shapes", of |-> inputs.shape]>>

ModelPredict(preprocessed_inputs, true_image_shapes) ==
    [kind |-> "output_tensors", of |-> preprocessed_inputs,
     shapes |-> true_image_shapes]

Call(fn, args, result) == [fn |-> fn, args |-> args, result |-> result]

\* An adapter that converts the input but hands the model's preprocess the
\* unconverted uint8 tensor.
InferenceTraceUnconverted(tensors, out) ==
    LET inputs == ToFloat(tensors)
        pre    == ModelPreprocess(tensors)
        output_tensors == ModelPredict(pre[1], pre[2])
    IN  [calls |->
            << Call("tf.to_float", <<tensors>>, inputs),
               Call("detection_model.preprocess", <<tensors>>, pre),
               Call("detection_model.predict", <<pre[1], pre[2]>>, output_tensors),
               Call("detection_model.postprocess",
                    <<output_tensors, pre[2]>>, out) >>,
         returned |-> out]

\* The body of object_detection_inference: the calls it makes, in order,
\* and the value it returns.
InferenceTrace(tensors, out) ==
    LET inputs == ToFloat(tensors)
        pre    == ModelPreprocess(inputs)
        preprocessed_inputs == pre[1]
        true_image_shapes   == pre[2]
        output_tensors == ModelPredict(preprocessed_inputs, true_image_shapes)
        postprocessed_tensors == out
    IN  [calls |->
            << Call("tf.to_float", <<tensors>>, inputs),
               Call("detection_model.preprocess", <<inputs>>, pre),
               Call("detection_model.predict",
                    <<preprocessed_inputs, true_image_shapes>>, output_tensors),
               Call("detection_model.postprocess",
                    <<output_tensors, true_image_shapes>>, postprocessed_tensors) >>,
         returned |-> postprocessed_tensors]

\* The returned dict as Python objects: entry k is bound to heap object k.
DictOf(out) == [k \in 1..Len(out) |-> [name |-> out[k].name, ref |-> k]]
HeapOf(out) == [k \in 1..Len(out) |-> out[k].value]

ObjectDetectionInference ==
    /\ pc = "start"
    /\ \E out \in OutputStructures :
         LET run == InferenceTrace(input_tensors, out)
         IN  /\ calls' = calls \o run.calls
             /\ model_output' = run.returned
             /\ object_detection_tensor_dict' = DictOf(run.returned)
             /\ heap' = HeapOf(run.returned)
    /\ pc' = "inferred"
    /\ UNCHANGED <<input_tensors, extra_args, graph, post_return>>

-----------------------------------------------------------------------------
(* object_detection_dict_to_tensor_dict (LayerInjector)                    *)

\* "Sets output to a non-image"
OUTPUT_AS_IMAGE == FALSE

\* "Class labels are 1-indexed"
LABEL_ID_OFFSET == 1

\* Element-wise tensor + scalar.
TensorAdd(value, offset) == [j \in 1..Len(value) |-> value[j] + offset]

\* `tensor += offset` on a numpy-like mutable array: the object is updated in
\* place and the name stays bound to it.
InPlaceIAdd(h, ref, offset) ==
    [heap |-> [h EXCEPT ![ref] = TensorAdd(h[ref], offset)], ref |-> ref]

\* `tensor += offset` on a tf.Tensor: tf.Tensor has no __iadd__, so Python
\* evaluates tensor = tensor + offset: a new object, the old one untouched.
TensorIAdd(h, ref, offset) ==
    [heap |-> Append(h, TensorAdd(h[ref], offset)), ref |-> Len(h) + 1]

\* tf.identity(tensor, name): a new graph node called `name` whose value is
\* that of `tensor`.
TfIdentity(h, ref, name) ==
    [heap |-> Append(h, h[ref]),
     node |-> [name |-> name, ref |-> Len(h) + 1]]

\* A loop body that names the tensor first and adds the offset afterwards,
\* so that the named node holds the value without the offset.
LoopBodyOffsetAfterIdentity(st, item) ==
    LET name   == item.name
        ident  == TfIdentity(st.heap, item.ref, name)
        added  == IF name = "detection_classes"
                  THEN TensorIAdd(ident.heap, ident.node.ref, LABEL_ID_OFFSET)
                  ELSE [heap |-> ident.heap, ref |-> ident.node.ref]
    IN  [dict  |-> st.dict,
         heap  |-> added.heap,
         graph |-> Append(st.graph, ident.node),
         output_node_names |-> Append(st.output_node_names, name)]

\* One iteration of the for loop over object_detection_tensor_dict.items().
LoopBody(st, item) ==
    LET name   == item.name
        added  == IF name = "detection_classes"
                  THEN TensorIAdd(st.heap, item.ref, LABEL_ID_OFFSET)
                  ELSE [heap |-> st.heap, ref |-> item.ref]
        ident  == TfIdentity(added.heap, added.ref, name)
    IN  [dict  |-> st.dict,
         heap  |-> ident.heap,
         graph |-> Append(st.graph, ident.node),
         output_node_names |-> Append(st.output_node_names, name)]

\* A loop that stops one item early.
RECURSIVE ForEachItemButLast(_, _, _)
ForEachItemButLast(items, k, st) ==
    IF k >= Len(items) THEN st
    ELSE ForEachItemButLast(items, k + 1, LoopBody(st, items[k]))

RECURSIVE ForEachItem(_, _, _)
ForEachItem(items, k, st) ==
    IF k > Len(items) THEN st
    ELSE ForEachItem(items, k + 1, LoopBody(st, items[k]))

\* A flag that asks for an image when there is no tensor to send.
ReturnedFlagWhenEmpty(tensor_dict, args) == Len(tensor_dict) = 0

\* The function's return value depends on neither the dict nor *args.
ReturnedFlag(tensor_dict, args) == OUTPUT_AS_IMAGE

ExtraArgs == {<<>>, <<"arg">>}

ObjectDetectionDictToTensorDict ==
    /\ pc = "inferred"
    /\ LET final == ForEachItem(object_detection_tensor_dict, 1,
                        [dict |-> object_detection_tensor_dict,
                         heap |-> heap, graph |-> graph,
                         output_node_names |-> <<>>])
       IN  /\ object_detection_tensor_dict' = final.dict
           /\ heap' = final.heap
           /\ graph' = final.graph
           /\ post_return' =
                <<final.output_node_names,
                  ReturnedFlag(object_detection_tensor_dict, extra_args)>>
    /\ pc' = "done"
    /\ UNCHANGED <<input_tensors, calls, model_output, extra_args>>

ServerIdle ==
    /\ pc = "idle"
    /\ input_tensors = NoTensor
    /\ extra_args = <<>>
    /\ calls = <<>>
    /\ model_output = <<>>
    /\ heap = <<>>
    /\ object_detection_tensor_dict = <<>>
    /\ graph = <<>>
    /\ post_return = <<>>

ServerInit ==
    /\ pc = "start"
    /\ input_tensors \in InputTensors
    /\ extra_args \in ExtraArgs
    /\ calls = <<>>
    /\ model_output = <<>>
    /\ heap = <<>>
    /\ object_detection_tensor_dict = <<>>
    /\ graph = <<>>
    /\ post_return = <<>>

PreIdle ==
    /\ pre_pc = "idle"
    /\ input_bytes = [shape |-> <<>>, valid |-> FALSE, h |-> 1, w |-> 1, c |-> 1]
    /\ channels = 0
    /\ input_tensor = NoTensor

ClientIdle ==
    /\ client = <<>>
    /\ label_file = <<>>
    /\ files = <<>>
    /\ loads = 0
    /\ default_graph = <<>>
    /\ log = <<>>

-----------------------------------------------------------------------------
(* The object detection client: helpers of visualize()                     *)

MaxCalls == 2   \* visualize() calls in one behaviour
MaxIndex == 1   \* the image index i ranges over 0..MaxIndex

\* max_num_classes=1 in get_category_index
MAX_NUM_CLASSES == 1

\* np.uint8 holds the values 0..255
UINT8_RANGE == 256

\* What the serving endpoint answers for the model output `out`: one entry per
\* node the postprocessing function named, holding that node's value.
ServedResponse(out) ==
    LET final == ForEachItem(DictOf(out), 1,
                     [dict |-> DictOf(out), heap |-> HeapOf(out),
                      graph |-> <<>>, output_node_names |-> <<>>])
        nodes == Range(final.graph)
    IN  [n \in {node.name : node \in nodes} |->
            final.heap[(CHOOSE node \in nodes : node.name = n).ref]]

\* The model outputs behind the responses the client is shown: complete ones
\* with one detection of class id c, and ones lacking an entry.
ModelClassIds == {0, UINT8_RANGE - 1}

FullOutput(c) ==
    << [name |-> "detection_boxes",   value |-> <<0>>],
       [name |-> "detection_scores",  value |-> <<1>>],
       [name |-> "detection_classes", value |-> <<c>>] >>

Without(out, name) == SelectSeq(out, LAMBDA e : e.name # name)

PartialOutputs ==
    {Without(FullOutput(0), n) :
        n \in {"detection_boxes", "detection_scores", "detection_classes"}}

ClassesOf(out) ==
    LET hit == SelectSeq(out, LAMBDA e : e.name = "detection_classes")
    IN  IF hit = <<>> THEN <<>> ELSE hit[1].value

\* The encoded JPEGs handed to visualize(): one that fits image_size = 2,
\* one of another size, and one that is no JPEG.
FittingImage == [id |-> "a", valid |-> TRUE,  h |-> 2, w |-> 2]
SmallImage   == [id |-> "b", valid |-> TRUE,  h |-> 1, w |-> 1]
BrokenImage  == [id |-> "c", valid |-> FALSE, h |-> 1, w |-> 1]

ClientImages == {FittingImage, SmallImage, BrokenImage}

\* The (model output, input image) pairs visualize() is called with: every
\* image with every complete output, and the partial outputs with an image
\* that decodes; one partial output also with the image that does not.
ClientInputs ==
    ({FullOutput(c) : c \in ModelClassIds} \X ClientImages)
    \cup (PartialOutputs \X {FittingImage})
    \cup {<<Without(FullOutput(0), "detection_scores"), BrokenImage>>}

\* The file at label_path: absent, or a label map with the items 1..n.
LabelFiles ==
    { [exists |-> FALSE, items |-> <<>>],
      [exists |-> TRUE,  items |-> <<[id |-> 1, name |-> "one"]>>],
      [exists |-> TRUE,  items |-> <<[id |-> 1, name |-> "one"],
                                     [id |-> 2, name |-> "two"]>>] }

ClientConfigs ==
    { [output_dir |-> "out", output_filename |-> "output",
       output_extension |-> ".png", image_size |-> 2,
       label_path |-> "label_map.pbtxt"] }

\* response.get(key, []): a missing key reads as an empty list.
ResponseLookupDefault(response, key) ==
    IF key \in DOMAIN response
    THEN [ok |-> TRUE, value |-> response[key]]
    ELSE [ok |-> TRUE, value |-> <<>>]

\* response[key]: a missing key raises KeyError.
ResponseLookup(response, key) ==
    IF key \in DOMAIN response
    THEN [ok |-> TRUE, value |-> response[key]]
    ELSE [ok |-> FALSE, value |-> <<>>]

\* tf.image.decode_jpeg(input_bytes, channels=3)
DecodeJpeg(bytes) == [shape |-> <<bytes.h, bytes.w, 3>>, dtype |-> "uint8"]

\* tf.reshape(input_tensor, [self.image_size, self.image_size, 3])
ClientShape(self) == <<self.image_size, self.image_size, 3>>

\* image.eval() of the client's bitstring_to_uint8_tensor: decoding needs a
\* JPEG, reshaping needs as many elements as the target shape has.
EvalOk(self, bytes) ==
    /\ bytes.valid
    /\ NumElements(DecodeJpeg(bytes).shape) = NumElements(ClientShape(self))

ClientBitstringToUint8Tensor(self, bytes) ==
    [shape |-> ClientShape(self), dtype |-> "uint8", pixels |-> bytes.id]

\* np.asarray(detection_classes, dtype=np.uint8)
AsUint8(x) == x % UINT8_RANGE
NpAsarrayUint8(value) == [j \in 1..Len(value) |-> AsUint8(value[j])]

\* convert_label_map_to_categories(label_map, max_num_classes=1, ...) keeps
\* the items with 0 < id <= max_num_classes; create_category_index keys them
\* by id.
CategoryIndex(items) ==
    LET categories == {items[k] : k \in {j \in 1..Len(items) :
                          0 < items[j].id /\ items[j].id <= MAX_NUM_CLASSES}}
    IN  [id \in {c.id : c \in categories} |->
            CHOOSE c \in categories : c.id = id]

\* A get_category_index that keeps what it loaded first.
GetCategoryIndexCached(file, n_loads) ==
    [ok |-> file.exists,
     loads |-> IF file.exists /\ n_loads = 0 THEN 1 ELSE n_loads,
     category_index |-> IF file.exists THEN CategoryIndex(file.items) ELSE <<>>]

\* get_category_index(self): loads the label map at every call;
\* load_labelmap raises when there is no file at label_path.
GetCategoryIndex(file, n_loads) ==
    [ok |-> file.exists,
     loads |-> IF file.exists THEN n_loads + 1 ELSE n_loads,
     category_index |-> IF file.exists THEN CategoryIndex(file.items) ELSE <<>>]

\* visualize_boxes_and_labels_on_image_array draws on `image` in place; the
\* label of a box is its class's category name, "N/A" for an unknown class.
Draw(image, boxes, classes, scores, category_index) ==
    [image |-> image, boxes |-> boxes, classes |-> classes, scores |-> scores,
     labels |-> [j \in 1..Len(classes) |->
                    IF classes[j] \in DOMAIN category_index
                    THEN category_index[classes[j]].name ELSE "N/A"]]

NoImage ==
    [image |-> NoTensor, boxes |-> <<>>, classes |-> <<>>, scores |-> <<>>,
     labels |-> <<>>]

\* A file name numbered by the calls made so far instead of by i.
OutputFileNumbered(self, i) ==
    self.output_dir \o "/images/" \o self.output_filename
        \o ToString(Len(log)) \o self.output_extension

\* self.output_dir + "/images/" + self.output_filename + str(i)
\*     + self.output_extension
OutputFile(self, i) ==
    self.output_dir \o "/images/" \o self.output_filename
        \o ToString(i) \o self.output_extension

-----------------------------------------------------------------------------
(* visualize(self, input_image, response, i)                               *)

\* An exception leaves visualize() at the step that raised it: nothing is
\* drawn or saved.  `attempts` lists the steps started, in order.
Raise(error, attempts, n_loads) ==
    [error |-> error, attempts |-> attempts, loads |-> n_loads,
     classes |-> <<>>, category_index |-> <<>>, image |-> NoImage,
     output_file |-> "", wrote |-> FALSE]

LookupSteps ==
    << "response[detection_boxes]", "response[detection_classes]",
       "response[detection_scores]" >>

Visualize(self, file, n_loads, input_image, response, i) ==
    LET detection_boxes   == ResponseLookup(response, "detection_boxes")
        detection_classes == ResponseLookup(response, "detection_classes")
        detection_scores  == ResponseLookup(response, "detection_scores")
        decoded  == LookupSteps \o <<"bitstring_to_uint8_tensor", "image.eval">>
        prepared == decoded \o <<"np.asarray", "get_category_index">>
    IN  IF ~detection_boxes.ok
          THEN Raise("KeyError", SubSeq(LookupSteps, 1, 1), n_loads)
        ELSE IF ~detection_classes.ok
          THEN Raise("KeyError", SubSeq(LookupSteps, 1, 2), n_loads)
        ELSE IF ~detection_scores.ok
          THEN Raise("KeyError", LookupSteps, n_loads)
        ELSE IF ~EvalOk(self, input_image)
          THEN Raise("InvalidArgumentError", decoded, n_loads)
        ELSE
          LET image   == ClientBitstringToUint8Tensor(self, input_image)
              classes == NpAsarrayUint8(detection_classes.value)
              index   == GetCategoryIndex(file, n_loads)
          IN  IF ~index.ok
                THEN Raise("NotFoundError", prepared, index.loads)
              ELSE
                [error |-> "none",
                 attempts |-> prepared \o
                    <<"visualize_boxes_and_labels_on_image_array",
                      "save_image_array_as_png">>,
                 loads |-> index.loads,
                 classes |-> classes,
                 category_index |-> index.category_index,
                 image |-> Draw(image, detection_boxes.value, classes,
                                detection_scores.value, index.category_index),
                 output_file |-> OutputFile(self, i),
                 wrote |-> TRUE]

\* The client's bitstring_to_uint8_tensor builds its ops in the process-wide
\* default graph at every call; no call removes them.
OpsBuilt(attempts) ==
    IF "bitstring_to_uint8_tensor" \in Range(attempts)
    THEN <<"Reshape", "DecodeJpeg", "Reshape">> ELSE <<>>

\* save_image_array_as_png(image, output_file)
SaveImage(fs, path, image) ==
    [p \in DOMAIN fs \cup {path} |-> IF p = path THEN image ELSE fs[p]]

VisualizeCall ==
    /\ Len(log) < MaxCalls
    /\ \E in \in ClientInputs, i \in 0..MaxIndex :
         LET out == in[1]
             input_image == in[2]
             response == ServedResponse(out)
             r == Visualize(client, label_file, loads, input_image, response, i)
         IN  /\ log' = Append(log,
                    [input_image |-> input_image, response |-> response,
                     i |-> i, model_classes |-> ClassesOf(out),
                     result |-> r])
             /\ loads' = r.loads
             /\ default_graph' = default_graph \o OpsBuilt(r.attempts)
             /\ files' = IF r.wrote THEN SaveImage(files, r.output_file, r.image)
                         ELSE files
    /\ UNCHANGED <<client, label_file>>

ClientInit ==
    /\ client \in ClientConfigs
    /\ label_file \in LabelFiles
    /\ files = <<>>
    /\ loads = 0
    /\ default_graph = <<>>
    /\ log = <<>>

-----------------------------------------------------------------------------
(* Specifications                                                          *)

\* The export-time pipeline of build_server_from_tf: the inference function,
\* then the postprocessing function on what it returned.
Init == ServerInit /\ PreIdle /\ ClientIdle

Next ==
    \/ ObjectDetectionInference /\ UNCHANGED <<pre_vars, client_vars>>
    \/ ObjectDetectionDictToTensorDict /\ UNCHANGED <<pre_vars, client_vars>>

Spec == Init /\ [][Next]_vars

\* The preprocessing function on its own, over every input.
InitPre == PreInit /\ ServerIdle /\ ClientIdle

NextPre == BitstringToUint8Tensor /\ UNCHANGED <<server_vars, client_vars>>

SpecPre == InitPre /\ [][NextPre]_vars

\* One client instance and the visualize() calls its inference driver makes.
InitClient == ClientInit /\ PreIdle /\ ServerIdle

NextClient == VisualizeCall /\ UNCHANGED <<pre_vars, server_vars>>

SpecClient == InitClient /\ [][NextClient]_vars

-----------------------------------------------------------------------------
(* Properties of the postprocessing function (checked under Spec)          *)

KeysOf(out) == [k \in 1..Len(out) |-> out[k].name]

NodesNamed(name) == {k \in 1..Len(graph) : graph[k].name = name}

\* C1: when the postprocessing function has returned, the returned name list
\* is the list of the keys of the structure it was given, in iteration
\* order: as long as the structure, and without a repeated name.
C1_NamesAreKeysInOrder ==
    pc = "done" =>
        /\ post_return[1] = KeysOf(model_output)
        /\ post_return[1] = KeysOf(object_detection_tensor_dict)
        /\ Len(post_return[1]) = Len(model_output)
        /\ Cardinality(Range(post_return[1])) = Len(post_return[1])

C1_Witness ==
    /\ pc = "done"
    /\ post_return[1] =
         <<"detection_scores", "detection_classes", "detection_boxes">>

\* C2: when the structure holds a "detection_classes" entry, a node of that
\* name is exposed, and every element of every node of that name is the
\* entry's original element plus 1.
C2_ClassesPlusOne ==
    pc = "done" =>
        \A k \in 1..Len(model_output) :
            model_output[k].name = "detection_classes" =>
                /\ NodesNamed("detection_classes") # {}
                /\ \A n \in NodesNamed("detection_classes") :
                      LET exposed == heap[graph[n].ref]
                      IN  /\ Len(exposed) = Len(model_output[k].value)
                          /\ \A j \in 1..Len(exposed) :
                                exposed[j] = model_output[k].value[j] + 1

C2_Witness ==
    /\ pc = "done"
    /\ \E k \in 1..Len(model_output) :
          /\ model_output[k].name = "detection_classes"
          /\ model_output[k].value = <<1>>
    /\ \E n \in NodesNamed("detection_classes") : heap[graph[n].ref] = <<2>>

\* C3: the output-as-image flag the postprocessing function returns is
\* false, whatever the structure (the empty one included) and the extra
\* arguments.
C3_NeverAsImage == pc = "done" => post_return[2] = FALSE

C3_Witness ==
    /\ pc = "done"
    /\ model_output = <<>>
    /\ extra_args # <<>>
    /\ post_return[2] = FALSE

\* C9: every entry other than "detection_classes" is exposed under its own
\* name with its original value, and after the call the structure has the
\* same keys bound to the same objects, which still hold their original
\* values.
C9_OnlyClassesOffset ==
    pc = "done" =>
        /\ Len(graph) = Len(model_output)
        /\ \A k \in 1..Len(model_output) :
              /\ graph[k].name = model_output[k].name
              /\ model_output[k].name # "detection_classes" =>
                    heap[graph[k].ref] = model_output[k].value
        /\ object_detection_tensor_dict = DictOf(model_output)
        /\ \A k \in 1..Len(model_output) :
              heap[object_detection_tensor_dict[k].ref] = model_output[k].value

C9_Witness ==
    /\ pc = "done"
    /\ model_output =
         << [name |-> "detection_classes", value |-> <<1>>],
            [name |-> "detection_boxes", value |-> <<1>>] >>
    /\ heap[graph[1].ref] = <<2>>
    /\ heap[graph[2].ref] = <<1>>
    /\ heap[object_detection_tensor_dict[1].ref] = <<1>>

-----------------------------------------------------------------------------
(* Property of the inference adapter (checked under Spec)                  *)

\* C6: one invocation makes exactly four calls, in the order to_float,
\* preprocess, predict, postprocess; each is given the result of the one
\* before (predict and postprocess also the true_image_shapes that
\* preprocess returned), and the adapter returns what postprocess returned.
C6_StagesOnceInOrder ==
    pc \in {"inferred", "done"} =>
        /\ Len(calls) = 4
        /\ [k \in 1..4 |-> calls[k].fn] =
              << "tf.to_float", "detection_model.preprocess",
                 "detection_model.predict", "detection_model.postprocess" >>
        /\ calls[1].args = <<input_tensors>>
        /\ calls[1].result = [input_tensors EXCEPT !.dtype = "float32"]
        /\ calls[2].args = <<calls[1].result>>
        /\ calls[3].args[1].kind = "preprocessed_inputs"
        /\ calls[3].args[1] = calls[2].result[1]
        /\ calls[3].args[2] = calls[2].result[2]
        /\ calls[4].args = <<calls[3].result, calls[2].result[2]>>
        /\ model_output = calls[4].result
        /\ DictOf(calls[4].result) = object_detection_tensor_dict
        /\ \A k \in 1..Len(object_detection_tensor_dict) :
              heap[object_detection_tensor_dict[k].ref] = calls[4].result[k].value

C6_Witness ==
    /\ pc = "inferred"
    /\ Len(calls) = 4
    /\ input_tensors.shape = <<1, 2, 2, 3>>
    /\ Len(model_output) = 2
    /\ calls[4].result = model_output

-----------------------------------------------------------------------------
(* Property of the preprocessing function (checked under SpecPre)          *)

\* C4: for a decodable PNG of h x w pixels the preprocessing function
\* returns a uint8 tensor of rank 3 + 1 and shape [1, h, w, C], C being the
\* requested channel count (the file's own when 0 was requested).
C4_BatchOfOneShape ==
    pre_pc = "done" =>
        LET C == IF channels = 0 THEN input_bytes.c ELSE channels
        IN  /\ Len(input_tensor.shape) = 3 + 1
            /\ input_tensor.shape[1] = 1
            /\ input_tensor.shape = <<1, input_bytes.h, input_bytes.w, C>>
            /\ channels # 0 => input_tensor.shape[4] = channels
            /\ input_tensor.dtype = "uint8"

C4_Witness ==
    /\ pre_pc = "done"
    /\ channels = 3
    /\ input_bytes.h = 2 /\ input_bytes.w = 3
    /\ input_tensor.shape = <<1, 2, 3, 3>>

-----------------------------------------------------------------------------
(* Properties of the client (checked under SpecClient)                     *)

Reached(k, step) == step \in Range(log[k].result.attempts)

\* C5, as claimed: over any sequence of visualize calls on one client the
\* label map is loaded at most once.
C5_LoadedAtMostOnce == loads <= 1

\* C5, amended: the category index is not held by the client.  Every
\* visualize call that gets as far as drawing has loaded the label map once
\* more, so the number of loads is the number of such calls; each of them
\* uses the index built from the label map file as it is.
C5_LoadedAtEveryCall ==
    /\ loads = Cardinality({k \in 1..Len(log) :
                   Reached(k, "visualize_boxes_and_labels_on_image_array")})
    /\ \A k \in 1..Len(log) :
          log[k].result.error = "none" =>
              log[k].result.category_index = CategoryIndex(label_file.items)

C5_Witness ==
    /\ Len(log) = 2
    /\ log[1].result.error = "none"
    /\ log[2].result.error = "none"
    /\ loads = 2

SameArguments(a, b) ==
    /\ a.input_image = b.input_image
    /\ a.response = b.response
    /\ a.i = b.i

\* C7: a visualize call changes no field of the client (nor the label map
\* file), and after it any two calls made so far with the same
\* (input_image, response, i), whatever calls came before each, have
\* produced the same rendered image and the same output file path.
C7_CallsIndependent ==
    [][ /\ client' = client
        /\ label_file' = label_file
        /\ \A j, k \in 1..Len(log') :
              SameArguments(log'[j], log'[k]) =>
                  /\ log'[j].result.image = log'[k].result.image
                  /\ log'[j].result.output_file = log'[k].result.output_file
      ]_vars

C7_Witness ==
    /\ Len(log) = 2
    /\ SameArguments(log[1], log[2])
    /\ log[1].result.wrote
    /\ log[2].result.output_file = "out/images/output1.png"

MissingKey(response) ==
    \E key \in {"detection_boxes", "detection_classes", "detection_scores"} :
        key \notin DOMAIN response

Undecodable(self, bytes) ==
    \/ ~bytes.valid
    \/ bytes.h * bytes.w * 3 # self.image_size * self.image_size * 3

NoDuplicates(q) == Cardinality(Range(q)) = Len(q)

\* C8: a visualize call in which a response key is missing, the image cannot
\* be decoded to the client's shape, or the label map cannot be loaded ends
\* with an error at the caller; every step it started was started once, it
\* neither drew nor saved, and the files on disk are exactly those saved by
\* calls that ended without an error.
C8_FailuresPropagate ==
    /\ \A k \in 1..Len(log) :
          LET e == log[k]
          IN  (\/ MissingKey(e.response)
               \/ Undecodable(client, e.input_image)
               \/ ~label_file.exists)
              => /\ e.result.error # "none"
                 /\ ~e.result.wrote
                 /\ NoDuplicates(e.result.attempts)
                 /\ ~Reached(k, "visualize_boxes_and_labels_on_image_array")
                 /\ ~Reached(k, "save_image_array_as_png")
    /\ DOMAIN files =
          {log[k].result.output_file :
              k \in {j \in 1..Len(log) : log[j].result.error = "none"}}

C8_Witness ==
    /\ Len(log) = 2
    /\ log[1].result.error = "KeyError"
    /\ log[1].result.attempts =
          <<"response[detection_boxes]", "response[detection_classes]">>
    /\ log[2].result.error = "InvalidArgumentError"
    /\ DOMAIN files = {}

=============================================================================
